---- MODULE Spec2Model ----
(***************************************************************************)
(* The GLM checkpoint converter convert_glm_weights_to_hf.py as a state     *)
(* machine: convert_glm_model runs convert_config, merge_safetensors,       *)
(* convert_state_dict and the tokenizer rebuild one after another over an   *)
(* input directory and an output directory.                                 *)
(*                                                                         *)
(* A Python str is a sequence of one-character strings, so that             *)
(* str.replace, str.split, str.endswith and int() are computed character    *)
(* by character.  A file's content is a sequence of bytes (small naturals). *)
(***************************************************************************)
EXTENDS Integers, Sequences, FiniteSets, TLC

VARIABLES
  input_dir,            \* the path given as input_dir (a str)
  dir_files,            \* the files of input_dir: filename -> bytes (config.json apart)
  config_json,          \* the parsed content of input_dir/config.json: field -> value
  output_dir,           \* the set of files present in output_dir
  written,              \* the files the current run has written so far
  original_config,      \* convert_glm_model's local: the record convert_config consumes
  new_config,           \* the GlmConfig built by convert_config (<<>> before)
  original_state_dict,  \* the loaded weights: a sequence of [key, value] in dict order
  new_dict,             \* the renamed weights: a sequence of [key, value] in dict order
  pc,                   \* the statement convert_glm_model is at
  error,                \* the exception that ended the run ("none" while running)
  run                   \* how many times the conversion has been started

vars == << input_dir, dir_files, config_json, output_dir, written, original_config,
           new_config, original_state_dict, new_dict, pc, error, run >>

(***************************************************************************)
(* Bounds of the model.                                                    *)
(***************************************************************************)
\* the longest weight collection safe_load_file returns
MaxKeys == 2
\* how many times the conversion (or merge_safetensors) is run on one directory
MaxRuns == 2

(***************************************************************************)
(* String literals of the source.                                          *)
(***************************************************************************)

\* One rename rule (old, new) per entry of the dict literal.
\* "transformer.": "model."
Rule_transformer ==
  << <<"t","r","a","n","s","f","o","r","m","e","r",".">>,
     <<"m","o","d","e","l",".">> >>

\* "transformer.output_layer.": "lm_head."
Rule_output_layer ==
  << <<"t","r","a","n","s","f","o","r","m","e","r",".","o","u","t","p","u","t","_","l","a","y","e","r",".">>,
     <<"l","m","_","h","e","a","d",".">> >>

\* ".embedding.": ".embed_tokens."
Rule_embedding ==
  << <<".","e","m","b","e","d","d","i","n","g",".">>,
     <<".","e","m","b","e","d","_","t","o","k","e","n","s",".">> >>

\* ".encoder.layers.": ".layers."
Rule_encoder_layers ==
  << <<".","e","n","c","o","d","e","r",".","l","a","y","e","r","s",".">>,
     <<".","l","a","y","e","r","s",".">> >>

\* "final_layernorm.": "norm."
Rule_final_layernorm ==
  << <<"f","i","n","a","l","_","l","a","y","e","r","n","o","r","m",".">>,
     <<"n","o","r","m",".">> >>

\* "rotary_pos_embed.": "rotary_emb."
Rule_rotary_pos_embed ==
  << <<"r","o","t","a","r","y","_","p","o","s","_","e","m","b","e","d",".">>,
     <<"r","o","t","a","r","y","_","e","m","b",".">> >>

\* "self_attention.": "self_attn."
Rule_self_attention ==
  << <<"s","e","l","f","_","a","t","t","e","n","t","i","o","n",".">>,
     <<"s","e","l","f","_","a","t","t","n",".">> >>

\* "query_key_value.": "qkv_proj."
Rule_query_key_value ==
  << <<"q","u","e","r","y","_","k","e","y","_","v","a","l","u","e",".">>,
     <<"q","k","v","_","p","r","o","j",".">> >>

\* "dense.": "o_proj."
Rule_dense ==
  << <<"d","e","n","s","e",".">>,
     <<"o","_","p","r","o","j",".">> >>

\* "dense_h_to_4h.": "gate_up_proj."
Rule_dense_h_to_4h ==
  << <<"d","e","n","s","e","_","h","_","t","o","_","4","h",".">>,
     <<"g","a","t","e","_","u","p","_","p","r","o","j",".">> >>

\* "dense_4h_to_h.": "down_proj."
Rule_dense_4h_to_h ==
  << <<"d","e","n","s","e","_","4","h","_","t","o","_","h",".">>,
     <<"d","o","w","n","_","p","r","o","j",".">> >>

\* the table with the rule for transformer.output_layer. left out
mapping_without_output_layer ==
  << Rule_transformer,
     Rule_embedding,
     Rule_encoder_layers,
     Rule_final_layernorm,
     Rule_rotary_pos_embed,
     Rule_self_attention,
     Rule_query_key_value,
     Rule_dense,
     Rule_dense_h_to_4h,
     Rule_dense_4h_to_h >>

\* The rename rules (old, new) in the order the dict literal lists them.
STATE_DICT_MAPPING ==
  << Rule_transformer,
     Rule_output_layer,
     Rule_embedding,
     Rule_encoder_layers,
     Rule_final_layernorm,
     Rule_rotary_pos_embed,
     Rule_self_attention,
     Rule_query_key_value,
     Rule_dense,
     Rule_dense_h_to_4h,
     Rule_dense_4h_to_h >>

\* ".safetensors"
Suffix ==
  <<".","s","a","f","e","t","e","n","s","o","r","s">>

\* "consolidated.safetensors"
ConsolidatedName ==
  <<"c","o","n","s","o","l","i","d","a","t","e","d",".","s","a","f","e","t","e","n","s","o","r","s">>

\* "-"
Hyphen ==
  <<"-">>

\* "/"
PathSep ==
  <<"/">>

(***************************************************************************)
(* Inputs: directory paths, file names and checkpoint keys.                *)
(***************************************************************************)

\* "ckpt"  (no hyphen in the path)
DirPlain ==
  <<"c","k","p","t">>

\* "glm-4-9b"  (the path's second hyphen-delimited segment is an integer)
DirHyphenInt ==
  <<"g","l","m","-","4","-","9","b">>

\* "my-dir"  (the path holds one hyphen)
DirHyphenWord ==
  <<"m","y","-","d","i","r">>

\* "tokenizer.model"
TokenizerName ==
  <<"t","o","k","e","n","i","z","e","r",".","m","o","d","e","l">>

\* "model-00001-of-00003.safetensors"
Shard1of3 ==
  <<"m","o","d","e","l","-","0","0","0","0","1","-","o","f","-","0","0","0","0","3",".","s","a","f","e","t","e","n","s","o","r","s">>

\* "model-00002-of-00003.safetensors"
Shard2of3 ==
  <<"m","o","d","e","l","-","0","0","0","0","2","-","o","f","-","0","0","0","0","3",".","s","a","f","e","t","e","n","s","o","r","s">>

\* "model-00003-of-00003.safetensors"
Shard3of3 ==
  <<"m","o","d","e","l","-","0","0","0","0","3","-","o","f","-","0","0","0","0","3",".","s","a","f","e","t","e","n","s","o","r","s">>

\* "model-00001-of-00001.safetensors"
Shard1of1 ==
  <<"m","o","d","e","l","-","0","0","0","0","1","-","o","f","-","0","0","0","0","1",".","s","a","f","e","t","e","n","s","o","r","s">>

\* "model-9-of-10.safetensors"  (unpadded: 9 sorts before 10 only as a number)
Shard9of10 ==
  <<"m","o","d","e","l","-","9","-","o","f","-","1","0",".","s","a","f","e","t","e","n","s","o","r","s">>

\* "model-10-of-10.safetensors"
Shard10of10 ==
  <<"m","o","d","e","l","-","1","0","-","o","f","-","1","0",".","s","a","f","e","t","e","n","s","o","r","s">>

\* "model.safetensors"  (no second hyphen-delimited segment)
NoIndexName ==
  <<"m","o","d","e","l",".","s","a","f","e","t","e","n","s","o","r","s">>

\* "model-final-of-00001.safetensors"  (the second segment is not an integer)
WordIndexName ==
  <<"m","o","d","e","l","-","f","i","n","a","l","-","o","f","-","0","0","0","0","1",".","s","a","f","e","t","e","n","s","o","r","s">>

\* "transformer.output_layer.weight"
K_output_layer ==
  <<"t","r","a","n","s","f","o","r","m","e","r",".","o","u","t","p","u","t","_","l","a","y","e","r",".","w","e","i","g","h","t">>

\* "transformer.encoder.layers.3.self_attention.query_key_value.weight"
K_query_key_value ==
  <<"t","r","a","n","s","f","o","r","m","e","r",".","e","n","c","o","d","e","r",".","l","a","y","e","r","s",".","3",".","s","e","l","f","_","a","t","t","e","n","t","i","o","n",".","q","u","e","r","y","_","k","e","y","_","v","a","l","u","e",".","w","e","i","g","h","t">>

\* "transformer.encoder.layers.3.self_attention.dense.weight"
K_dense ==
  <<"t","r","a","n","s","f","o","r","m","e","r",".","e","n","c","o","d","e","r",".","l","a","y","e","r","s",".","3",".","s","e","l","f","_","a","t","t","e","n","t","i","o","n",".","d","e","n","s","e",".","w","e","i","g","h","t">>

\* "transformer.encoder.layers.3.mlp.dense_h_to_4h.weight"
K_dense_h_to_4h ==
  <<"t","r","a","n","s","f","o","r","m","e","r",".","e","n","c","o","d","e","r",".","l","a","y","e","r","s",".","3",".","m","l","p",".","d","e","n","s","e","_","h","_","t","o","_","4","h",".","w","e","i","g","h","t">>

\* "transformer.encoder.layers.3.mlp.dense_4h_to_h.weight"
K_dense_4h_to_h ==
  <<"t","r","a","n","s","f","o","r","m","e","r",".","e","n","c","o","d","e","r",".","l","a","y","e","r","s",".","3",".","m","l","p",".","d","e","n","s","e","_","4","h","_","t","o","_","h",".","w","e","i","g","h","t">>

\* "transformer.encoder.final_layernorm.weight"
K_final_layernorm ==
  <<"t","r","a","n","s","f","o","r","m","e","r",".","e","n","c","o","d","e","r",".","f","i","n","a","l","_","l","a","y","e","r","n","o","r","m",".","w","e","i","g","h","t">>

\* "transformer.embedding.word_embeddings.weight"
K_embedding ==
  <<"t","r","a","n","s","f","o","r","m","e","r",".","e","m","b","e","d","d","i","n","g",".","w","o","r","d","_","e","m","b","e","d","d","i","n","g","s",".","w","e","i","g","h","t">>

\* "model.encoder.final_layernorm.weight"  (not a key of the source layout)
K_model_final_layernorm ==
  <<"m","o","d","e","l",".","e","n","c","o","d","e","r",".","f","i","n","a","l","_","l","a","y","e","r","n","o","r","m",".","w","e","i","g","h","t">>
(***************************************************************************)
(* Python's str and list operations, as the source uses them.              *)
(***************************************************************************)
Min(a, b) == IF a <= b THEN a ELSE b

\* s.endswith(suffix)
endswith(s, suffix) ==
  /\ Len(s) >= Len(suffix)
  /\ SubSeq(s, Len(s) - Len(suffix) + 1, Len(s)) = suffix

\* s.startswith(prefix)
startswith(s, prefix) ==
  /\ Len(s) >= Len(prefix)
  /\ SubSeq(s, 1, Len(prefix)) = prefix

\* old in s
contains(s, old) ==
  \E i \in 1..(Len(s) - Len(old) + 1) : SubSeq(s, i, i + Len(old) - 1) = old

\* s.replace(old, new): every occurrence of old, found left to right without
\* overlap, is replaced (old is never empty in STATE_DICT_MAPPING)
RECURSIVE replace(_, _, _)
replace(s, old, new) ==
  IF Len(s) < Len(old) THEN s
  ELSE IF startswith(s, old)
       THEN new \o replace(SubSeq(s, Len(old) + 1, Len(s)), old, new)
       ELSE << Head(s) >> \o replace(Tail(s), old, new)

\* s.split(sep, maxsplit) for a one-character sep: at most maxsplit cuts, the
\* rest of the string is the last part
RECURSIVE split(_, _, _)
split(s, sep, maxsplit) ==
  LET hits == { i \in 1..Len(s) : << s[i] >> = sep } IN
  IF maxsplit = 0 \/ hits = {} THEN << s >>
  ELSE LET i == CHOOSE j \in hits : \A k \in hits : j <= k IN
       << SubSeq(s, 1, i - 1) >> \o split(SubSeq(s, i + 1, Len(s)), sep, maxsplit - 1)

Digits == << "0", "1", "2", "3", "4", "5", "6", "7", "8", "9" >>

DigitValue(c) == (CHOOSE d \in 1..Len(Digits) : Digits[d] = c) - 1

\* whether int(s) returns: s is a non-empty run of decimal digits (the inputs
\* hold no sign, blank or underscore, which int() accepts around digits)
IsInt(s) ==
  /\ Len(s) >= 1
  /\ \A i \in 1..Len(s) : \E d \in 1..Len(Digits) : Digits[d] = s[i]

\* int(s)
RECURSIVE int(_)
int(s) ==
  IF Len(s) = 0 THEN 0
  ELSE 10 * int(SubSeq(s, 1, Len(s) - 1)) + DigitValue(s[Len(s)])

\* os.path.join(a, b) for a relative b
join(a, b) ==
  IF Len(a) = 0 \/ endswith(a, PathSep) THEN a \o b ELSE a \o PathSep \o b

\* the name of a file of directory dir, from the path join(dir, name)
basename(dir, path) == SubSeq(path, Len(join(dir, << >>)) + 1, Len(path))

\* the permutations of a finite set, as sequences: the orders os.listdir may
\* return the names in
Orders(S) ==
  { p \in [1..Cardinality(S) -> S] : \A i, j \in 1..Cardinality(S) : p[i] = p[j] => i = j }

\* [x for x in seq if keep(x)]
RECURSIVE SelectSafetensors(_)
SelectSafetensors(names) ==
  IF Len(names) = 0 THEN << >>
  ELSE (IF endswith(Head(names), Suffix) THEN << Head(names) >> ELSE << >>)
       \o SelectSafetensors(Tail(names))

(***************************************************************************)
(* merge_safetensors                                                       *)
(***************************************************************************)
\* the parts the sort key is taken from: x.split('-', 2), x the joined path
KeyParts(x) == split(x, Hyphen, 2)

\* the exception lambda x: int(x.split('-', 2)[1]) raises on x, or "none"
SortKeyError(x) ==
  IF Len(KeyParts(x)) < 2 THEN "IndexError"
  ELSE IF ~IsInt(KeyParts(x)[2]) THEN "ValueError"
  ELSE "none"

\* int(x.split('-', 2)[1])
SortKey(x) == int(KeyParts(x)[2])

\* sorted(seq, key=SortKey): stable, equal keys keep their order in seq
RECURSIVE sorted(_)
sorted(seq) ==
  IF Len(seq) = 0 THEN << >>
  ELSE LET rest == sorted(SubSeq(seq, 1, Len(seq) - 1))
           x    == seq[Len(seq)]
           n    == Cardinality({ i \in 1..Len(rest) : SortKey(rest[i]) <= SortKey(x) })
       IN  SubSeq(rest, 1, n) \o << x >> \o SubSeq(rest, n + 1, Len(rest))

\* the bytes f_out has received after the loop over paths; a shard is read
\* from files, while reading output_path itself returns what the open
\* f_out has flushed so far: at most `flushed` bytes of what was written
RECURSIVE write_all(_, _, _, _, _)
write_all(paths, dir, files, flushed, out) ==
  IF Len(paths) = 0 THEN out
  ELSE LET filepath == Head(paths)
           content  == IF filepath = join(dir, ConsolidatedName)
                       THEN SubSeq(out, 1, Min(flushed, Len(out)))
                       ELSE files[basename(dir, filepath)]
       IN  write_all(Tail(paths), dir, files, flushed, out \o content)

\* merge_safetensors(dir) over the files `files`, os.listdir returning
\* `listing`: the exception raised ("none" when it returns) and the files
\* of dir afterwards
merge_safetensors(dir, files, listing, flushed) ==
  LET names     == SelectSafetensors(listing)
      all_files == [ i \in 1..Len(names) |-> join(dir, names[i]) ]
      bad       == { i \in 1..Len(all_files) : SortKeyError(all_files[i]) # "none" }
  IN  IF bad # {}
      THEN [ error |-> SortKeyError(all_files[CHOOSE i \in bad : \A j \in bad : i <= j]),
             files |-> files ]
      ELSE [ error |-> "none",
             files |-> (ConsolidatedName :> write_all(sorted(all_files), dir, files, flushed, << >>))
                       @@ files ]

(***************************************************************************)
(* convert_state_dict                                                      *)
(***************************************************************************)
\* key rewritten by the rules of `rules`, one after another in their order
RECURSIVE apply_rules(_, _)
apply_rules(rules, key) ==
  IF Len(rules) = 0 THEN key
  ELSE apply_rules(Tail(rules), replace(key, Head(rules)[1], Head(rules)[2]))

\* the rename loop left at the first rule that changes the key
RECURSIVE new_key_first_match(_, _)
new_key_first_match(rules, key) ==
  IF Len(rules) = 0 THEN key
  ELSE IF contains(key, Head(rules)[1])
       THEN replace(key, Head(rules)[1], Head(rules)[2])
       ELSE new_key_first_match(Tail(rules), key)

\* first_match_only(key): the loop over STATE_DICT_MAPPING with a break
first_match_only(key) == new_key_first_match(STATE_DICT_MAPPING, key)

\* new_key after the inner loop over STATE_DICT_MAPPING.items()
new_key_of(key) == apply_rules(STATE_DICT_MAPPING, key)

\* d[k] = v on a dict kept in insertion order: an existing key keeps its
\* place and takes the new value, a new key is appended
set_item(d, k, v) ==
  IF \E i \in 1..Len(d) : d[i].key = k
  THEN [ i \in 1..Len(d) |-> IF d[i].key = k THEN [ key |-> k, value |-> v ] ELSE d[i] ]
  ELSE Append(d, [ key |-> k, value |-> v ])

\* the loop of convert_state_dict over the entries of `entries`, new_dict
\* holding `acc` so far
RECURSIVE convert_entries(_, _)
convert_entries(entries, acc) ==
  IF Len(entries) = 0 THEN acc
  ELSE convert_entries(Tail(entries),
                       set_item(acc, new_key_of(Head(entries).key), Head(entries).value))

\* the loop started at the second entry of the dict
skip_first_entry(original) ==
  IF Len(original) = 0 THEN << >> ELSE convert_entries(Tail(original), << >>)

\* convert_state_dict(original_state_dict)
convert_state_dict(original) == convert_entries(original, << >>)

(***************************************************************************)
(* convert_config                                                          *)
(***************************************************************************)
\* the fields popped before the key-value head count is decided
FirstPops ==
  << "num_attention_heads", "padded_vocab_size", "hidden_size", "ffn_hidden_size",
     "num_hidden_layer", "multi_query_attention" >>

\* the fields popped after it
LastPops ==
  << "hidden_dropout", "attention_dropout", "max_position_embeddings",
     "initializer_range", "layernorm_epsilon", "rope_ratio", "rmsnorm",
     "apply_residual_connection_post_layernorm", "post_layer_norm", "use_cache",
     "kv_channels", "add_qkv_bias", "add_bias_linear" >>

\* the group count read only when the record holds one
group_num_if_present(cfg) ==
  /\ "multi_query_attention" \in DOMAIN cfg
  /\ cfg["multi_query_attention"]
  /\ "multi_query_group_num" \in DOMAIN cfg

\* the conditional expression with its branches exchanged
group_num_when_flag_false(cfg) ==
  /\ "multi_query_attention" \in DOMAIN cfg
  /\ ~cfg["multi_query_attention"]

\* whether the conditional expression of num_key_value_heads takes its else
\* branch, original_config.pop("multi_query_group_num")
reads_group_num(cfg) ==
  /\ "multi_query_attention" \in DOMAIN cfg
  /\ cfg["multi_query_attention"]

\* the fields convert_config pops from cfg, in the order it evaluates them
pops(cfg) ==
  FirstPops
  \o (IF reads_group_num(cfg) THEN << "multi_query_group_num" >> ELSE << >>)
  \o LastPops

\* the place in pops(cfg) of the first field cfg lacks, 0 when it has them all
first_missing(cfg) ==
  LET gaps == { i \in 1..Len(pops(cfg)) : pops(cfg)[i] \notin DOMAIN cfg } IN
  IF gaps = {} THEN 0 ELSE CHOOSE i \in gaps : \A j \in gaps : i <= j

\* cfg without the fields pops(cfg)[1..n]
without_popped(cfg, n) ==
  LET left == DOMAIN cfg \ { pops(cfg)[i] : i \in 1..n } IN
  [ f \in left |-> cfg[f] ]

\* the GlmConfig(...) call, every needed field present
GlmConfig(cfg) ==
  [ vocab_size              |-> cfg["padded_vocab_size"],
    hidden_size             |-> cfg["hidden_size"],
    intermediate_size       |-> cfg["ffn_hidden_size"],
    num_hidden_layers       |-> cfg["num_hidden_layer"],
    num_attention_heads     |-> cfg["num_attention_heads"],
    num_key_value_heads     |-> IF reads_group_num(cfg)
                                THEN cfg["multi_query_group_num"]
                                ELSE cfg["num_attention_heads"],
    resid_pdrop             |-> cfg["hidden_dropout"],
    attention_dropout       |-> cfg["attention_dropout"],
    max_position_embeddings |-> cfg["max_position_embeddings"],
    initializer_range       |-> cfg["initializer_range"],
    rms_norm_eps            |-> cfg["layernorm_epsilon"],
    rope_theta              |-> 10000 * cfg["rope_ratio"],
    use_rms_norm            |-> cfg["rmsnorm"],
    apply_residual_connection_post_layernorm
                            |-> cfg["apply_residual_connection_post_layernorm"],
    post_layer_norm         |-> cfg["post_layer_norm"],
    use_cache               |-> cfg["use_cache"],
    head_dim                |-> cfg["kv_channels"],
    attention_bias          |-> cfg["add_qkv_bias"],
    linear_bias             |-> cfg["add_bias_linear"] ]

\* convert_config(cfg): the exception raised ("none" when it returns), the
\* GlmConfig returned and what is left of the record it consumed
convert_config(cfg) ==
  IF first_missing(cfg) # 0
  THEN [ error           |-> "KeyError",
         new_config      |-> << >>,
         original_config |-> without_popped(cfg, first_missing(cfg) - 1) ]
  ELSE [ error           |-> "none",
         new_config      |-> GlmConfig(cfg),
         original_config |-> without_popped(cfg, Len(pops(cfg))) ]

(***************************************************************************)
(* The inputs the conversion is run on.                                    *)
(***************************************************************************)
Dirs == { DirPlain, DirHyphenInt, DirHyphenWord }

\* the files of an input directory: name -> bytes
FileSets ==
  { (Shard1of3 :> << 11, 12 >>) @@ (Shard2of3 :> << 21 >>) @@ (Shard3of3 :> << 31 >>),
    (Shard1of1 :> << 11, 12 >>) @@ (TokenizerName :> << 91 >>),
    (Shard1of1 :> << 11, 12 >>) @@ (NoIndexName :> << 41 >>),
    (Shard1of1 :> << 11, 12 >>) @@ (WordIndexName :> << 51 >>),
    (Shard9of10 :> << 11, 12 >>) @@ (Shard10of10 :> << 21 >>) }

\* a source config.json with every field convert_config reads
FullConfig(flag) ==
  [ num_attention_heads     |-> 32,
    padded_vocab_size       |-> 151552,
    hidden_size             |-> 4096,
    ffn_hidden_size         |-> 13696,
    num_hidden_layer        |-> 40,
    multi_query_attention   |-> flag,
    multi_query_group_num   |-> 2,
    hidden_dropout          |-> "0.0",
    attention_dropout       |-> "0.0",
    max_position_embeddings |-> 8192,
    initializer_range       |-> "0.02",
    layernorm_epsilon       |-> "1.5625e-07",
    rope_ratio              |-> 1,
    rmsnorm                 |-> TRUE,
    apply_residual_connection_post_layernorm |-> FALSE,
    post_layer_norm         |-> TRUE,
    use_cache               |-> TRUE,
    kv_channels             |-> 128,
    add_qkv_bias            |-> TRUE,
    add_bias_linear         |-> FALSE ]

\* fields of a source config.json that convert_config does not read
ExtraFields == { << >>, [ seq_length |-> 8192, model_type |-> "chatglm" ] }

\* the source records: full, or lacking one field, with or without extras
Configs ==
  { [ f \in (DOMAIN FullConfig(flag) \cup DOMAIN extra) \ gone |->
        IF f \in DOMAIN extra THEN extra[f] ELSE FullConfig(flag)[f] ] :
    flag \in BOOLEAN, extra \in ExtraFields,
    gone \in { {} } \cup { { f } : f \in DOMAIN FullConfig(TRUE) } }

\* checkpoint keys; the tensor stored under KeyPool[i] is tensor i
KeyPool ==
  << K_output_layer, K_query_key_value, K_dense, K_dense_h_to_4h, K_dense_4h_to_h,
     K_final_layernorm, K_embedding, K_model_final_layernorm >>

\* the weight collections: up to MaxKeys entries with distinct keys, in any order
StateDicts ==
  UNION { { [ i \in 1..n |-> [ key |-> KeyPool[p[i]], value |-> p[i] ] ] :
            p \in { q \in [1..n -> 1..Len(KeyPool)] :
                    \A i, j \in 1..n : q[i] = q[j] => i = j } } :
          n \in 0..MaxKeys }

\* the bytes of the files names[1..] of files, counted
RECURSIVE total_len(_, _)
total_len(files, names) ==
  IF names = {} THEN 0
  ELSE LET n == CHOOSE x \in names : TRUE IN
       Len(files[n]) + total_len(files, names \ { n })

(***************************************************************************)
(* convert_glm_model, statement by statement.                              *)
(***************************************************************************)
\* the order of convert_glm_model with the weights merged before the config
\* is translated
merge_before_config(step) ==
  CASE step = "load_config"        -> "merge"
    [] step = "merge"              -> "convert_config"
    [] step = "convert_config"     -> "save_config"
    [] step = "save_config"        -> "load_weights"
    [] step = "load_weights"       -> "convert_state_dict"
    [] step = "convert_state_dict" -> "load_model"
    [] step = "load_model"         -> "tokenizer"
    [] step = "tokenizer"          -> "done"

\* the statement convert_glm_model runs after `step` returns
StepAfter(step) ==
  CASE step = "load_config"        -> "convert_config"
    [] step = "convert_config"     -> "save_config"
    [] step = "save_config"        -> "merge"
    [] step = "merge"              -> "load_weights"
    [] step = "load_weights"       -> "convert_state_dict"
    [] step = "convert_state_dict" -> "load_model"
    [] step = "load_model"         -> "tokenizer"
    [] step = "tokenizer"          -> "done"

\* an uncaught exception e ends the run; the locals are gone
Raise(e) ==
  /\ pc' = "failed"
  /\ error' = e
  /\ original_config' = << >>
  /\ new_config' = << >>
  /\ original_state_dict' = << >>
  /\ new_dict' = << >>

Running(step) == pc = step /\ error = "none"

\* with open(os.path.join(input_dir, "config.json")) as f: original_config = json.load(f)
LoadConfig ==
  /\ Running("load_config")
  /\ original_config' = config_json
  /\ pc' = StepAfter("load_config")
  /\ UNCHANGED << input_dir, dir_files, config_json, output_dir, written, new_config,
                  original_state_dict, new_dict, error, run >>

\* config = convert_config(original_config)
ConvertConfig ==
  /\ Running("convert_config")
  /\ LET r == convert_config(original_config) IN
       IF r.error # "none"
       THEN Raise(r.error)
       ELSE /\ original_config' = r.original_config
            /\ new_config' = r.new_config
            /\ pc' = StepAfter("convert_config")
            /\ UNCHANGED << original_state_dict, new_dict, error >>
  /\ UNCHANGED << input_dir, dir_files, config_json, output_dir, written, run >>

\* config.save_pretrained(output_dir)
SaveConfig ==
  /\ Running("save_config")
  /\ output_dir' = output_dir \cup { "config.json" }
  /\ written' = written \cup { "output_dir/config.json" }
  /\ pc' = StepAfter("save_config")
  /\ UNCHANGED << input_dir, dir_files, config_json, original_config, new_config,
                  original_state_dict, new_dict, error, run >>

\* merge_safetensors(input_dir), os.listdir returning the names in any order
MergeSafetensors ==
  /\ Running("merge")
  /\ \E listing \in Orders(DOMAIN dir_files),
        flushed \in 0..total_len(dir_files, DOMAIN dir_files \ { ConsolidatedName }) :
       LET r == merge_safetensors(input_dir, dir_files, listing, flushed) IN
         IF r.error # "none"
         THEN Raise(r.error) /\ UNCHANGED << dir_files, written >>
         ELSE /\ dir_files' = r.files
              /\ written' = written \cup { "input_dir/consolidated.safetensors" }
              /\ pc' = StepAfter("merge")
              /\ UNCHANGED << original_config, new_config, original_state_dict,
                              new_dict, error >>
  /\ UNCHANGED << input_dir, config_json, output_dir, run >>

\* original_state_dict = safe_load_file(.../consolidated.safetensors): the
\* collection the safetensors library reads from the merged bytes.  The whole
\* run is followed on the collections of one entry; SpecRename applies
\* convert_state_dict to every collection of StateDicts.
LoadWeights ==
  /\ Running("load_weights")
  /\ \E sd \in { d \in StateDicts : Len(d) = 1 } : original_state_dict' = sd
  /\ pc' = StepAfter("load_weights")
  /\ UNCHANGED << input_dir, dir_files, config_json, output_dir, written,
                  original_config, new_config, new_dict, error, run >>

\* new_dict = convert_state_dict(original_state_dict)
ConvertStateDict ==
  /\ Running("convert_state_dict")
  /\ new_dict' = convert_state_dict(original_state_dict)
  /\ pc' = StepAfter("convert_state_dict")
  /\ UNCHANGED << input_dir, dir_files, config_json, output_dir, written,
                  original_config, new_config, original_state_dict, error, run >>

\* model.load_state_dict(new_dict, strict=True, assign=True) accepts the
\* renamed keys; model.save_pretrained(output_dir)
SaveModel ==
  /\ Running("load_model")
  /\ output_dir' = output_dir \cup { "model.safetensors" }
  /\ written' = written \cup { "output_dir/model.safetensors" }
  /\ pc' = StepAfter("load_model")
  /\ UNCHANGED << input_dir, dir_files, config_json, original_config, new_config,
                  original_state_dict, new_dict, error, run >>

\* model.load_state_dict(..., strict=True) rejects the renamed keys
RejectWeights ==
  /\ Running("load_model")
  /\ Raise("RuntimeError")
  /\ UNCHANGED << input_dir, dir_files, config_json, output_dir, written, run >>

\* tokenizer = convert_glm_tokenizer(input_dir); tokenizer.save_pretrained(output_dir);
\* convert_glm_model returns
SaveTokenizer ==
  /\ Running("tokenizer")
  /\ output_dir' = output_dir \cup { "tokenizer.json" }
  /\ written' = written \cup { "output_dir/tokenizer.json" }
  /\ pc' = StepAfter("tokenizer")
  /\ original_config' = << >>
  /\ new_config' = << >>
  /\ original_state_dict' = << >>
  /\ new_dict' = << >>
  /\ UNCHANGED << input_dir, dir_files, config_json, error, run >>

\* AutoTokenizer.from_pretrained("THUDM/glm-4-9b") cannot fetch the reference tokenizer
TokenizerUnavailable ==
  /\ Running("tokenizer")
  /\ Raise("OSError")
  /\ UNCHANGED << input_dir, dir_files, config_json, output_dir, written, run >>

\* the script is started again on the same directories
RunAgain ==
  /\ pc \in { "done", "failed" }
  /\ run < MaxRuns
  /\ run' = run + 1
  /\ pc' = "load_config"
  /\ error' = "none"
  /\ written' = {}
  /\ UNCHANGED << input_dir, dir_files, config_json, output_dir, original_config,
                  new_config, original_state_dict, new_dict >>

\* merge_safetensors is called again on the same directory
MergeAgain ==
  /\ pc \in { StepAfter("merge"), "failed" }
  /\ run < MaxRuns
  /\ run' = run + 1
  /\ pc' = "merge"
  /\ error' = "none"
  /\ UNCHANGED << input_dir, dir_files, config_json, output_dir, written,
                  original_config, new_config, original_state_dict, new_dict >>

NoLocals ==
  /\ original_config = << >>
  /\ new_config = << >>
  /\ original_state_dict = << >>
  /\ new_dict = << >>

\* python convert_glm_weights_to_hf.py input_dir output_dir
Init ==
  /\ input_dir \in Dirs
  /\ dir_files \in FileSets
  /\ config_json \in Configs
  /\ output_dir = {}
  /\ written = {}
  /\ NoLocals
  /\ pc = "load_config"
  /\ error = "none"
  /\ run = 1

Next ==
  \/ LoadConfig
  \/ ConvertConfig
  \/ SaveConfig
  \/ MergeSafetensors
  \/ LoadWeights
  \/ ConvertStateDict
  \/ SaveModel
  \/ RejectWeights
  \/ SaveTokenizer
  \/ TokenizerUnavailable
  \/ RunAgain

Spec == Init /\ [][Next]_vars

\* convert_config called on each source record
InitConfig ==
  /\ input_dir = DirPlain
  /\ dir_files \in { d \in FileSets : Shard1of3 \in DOMAIN d }
  /\ config_json \in Configs
  /\ original_config = config_json
  /\ new_config = << >>
  /\ original_state_dict = << >>
  /\ new_dict = << >>
  /\ output_dir = {}
  /\ written = {}
  /\ pc = "convert_config"
  /\ error = "none"
  /\ run = 1

NextConfig == ConvertConfig

SpecConfig == InitConfig /\ [][NextConfig]_vars

\* merge_safetensors called on each directory, once and again
InitMerge ==
  /\ input_dir \in Dirs
  /\ dir_files \in FileSets
  /\ config_json = FullConfig(TRUE)
  /\ output_dir = {}
  /\ written = {}
  /\ NoLocals
  /\ pc = "merge"
  /\ error = "none"
  /\ run = 1

NextMerge ==
  \/ MergeSafetensors
  \/ MergeAgain

SpecMerge == InitMerge /\ [][NextMerge]_vars

\* convert_state_dict called on each weight collection
InitRename ==
  /\ input_dir = DirPlain
  /\ dir_files \in { d \in FileSets : Shard1of3 \in DOMAIN d }
  /\ config_json = FullConfig(TRUE)
  /\ original_config = << >>
  /\ new_config = << >>
  /\ original_state_dict \in StateDicts
  /\ new_dict = << >>
  /\ output_dir = {}
  /\ written = {}
  /\ pc = "convert_state_dict"
  /\ error = "none"
  /\ run = 1

NextRename == ConvertStateDict

SpecRename == InitRename /\ [][NextRename]_vars

(***************************************************************************)
(* Properties.                                                             *)
(***************************************************************************)
\* "model"
Str_model ==
  <<"m","o","d","e","l">>
\* "of"
Str_of ==
  <<"o","f">>
\* "model.layers.3.self_attn.qkv_proj.weight"
N_qkv_proj ==
  <<"m","o","d","e","l",".","l","a","y","e","r","s",".","3",".","s","e","l","f","_","a","t","t","n",".","q","k","v","_","p","r","o","j",".","w","e","i","g","h","t">>

\* merge_safetensors has returned / has raised while parsing a sort key
MergeReturned == pc = "load_weights"
MergeRaised == pc = "failed" /\ error \in { "IndexError", "ValueError" }

\* the .safetensors files the directory held before any merge wrote into it
InputShards ==
  { n \in DOMAIN dir_files : endswith(n, Suffix) } \ { ConsolidatedName }

\* n is model-<index>-of-<total>.safetensors, index and total decimal numbers
IsShardName(n) ==
  LET parts == split(n, Hyphen, 3) IN
  /\ Len(parts) = 4
  /\ parts[1] = Str_model
  /\ IsInt(parts[2])
  /\ parts[3] = Str_of
  /\ endswith(parts[4], Suffix)
  /\ IsInt(SubSeq(parts[4], 1, Len(parts[4]) - Len(Suffix)))

\* the shard index written in the file name n
ShardIndex(n) == int(split(n, Hyphen, 3)[2])

\* the second hyphen-delimited segment of the file name n is absent or no integer
Malformed(n) ==
  \/ Len(split(n, Hyphen, 2)) < 2
  \/ ~IsInt(split(n, Hyphen, 2)[2])

RECURSIVE ConcatContents(_)
ConcatContents(names) ==
  IF Len(names) = 0 THEN << >>
  ELSE dir_files[Head(names)] \o ConcatContents(Tail(names))

\* the shard contents concatenated in ascending shard index
ShardsInIndexOrder ==
  ConcatContents(CHOOSE p \in Orders(InputShards) :
                   \A i, j \in 1..Len(p) : i < j => ShardIndex(p[i]) < ShardIndex(p[j]))

\* C1: a first merge over a directory whose .safetensors files are all shards
\* model-<index>-of-<total>.safetensors (at least one) returns, whatever the
\* directory path and the listing order, and the combined file holds the
\* shards' bytes in ascending shard index, nothing else.
C1_MergedInShardIndexOrder ==
  ( /\ run = 1
    /\ MergeReturned \/ MergeRaised
    /\ InputShards # {}
    /\ \A n \in InputShards : IsShardName(n) )
  => /\ MergeReturned
     /\ dir_files[ConsolidatedName] = ShardsInIndexOrder

\* the key of the i-th rule-by-rule rewriting of key: chain[0] is key,
\* chain[n] is chain[n-1] with rule n's old substring replaced by its new one
RuleChain(key) ==
  LET chain[n \in 0..Len(STATE_DICT_MAPPING)] ==
        IF n = 0 THEN key
        ELSE replace(chain[n - 1], STATE_DICT_MAPPING[n][1], STATE_DICT_MAPPING[n][2])
  IN  chain

Converted == pc = "load_model"

\* C2: after convert_state_dict every key of the output is an input key
\* rewritten by rule 1, then rule 2, ... then the last rule of the table, each
\* rule leaving no occurrence of its old substring in the key it has rewritten,
\* and every input key is there so rewritten; the key
\* transformer.encoder.layers.3.self_attention.query_key_value.weight is stored
\* as model.layers.3.self_attn.qkv_proj.weight.
C2_RulesAppliedInTableOrder ==
  Converted =>
    /\ \A i \in DOMAIN original_state_dict :
         /\ \E j \in DOMAIN new_dict :
              new_dict[j].key =
                RuleChain(original_state_dict[i].key)[Len(STATE_DICT_MAPPING)]
         /\ \A n \in 1..Len(STATE_DICT_MAPPING) :
              ~contains(RuleChain(original_state_dict[i].key)[n], STATE_DICT_MAPPING[n][1])
    /\ \A j \in DOMAIN new_dict : \E i \in DOMAIN original_state_dict :
         new_dict[j].key = RuleChain(original_state_dict[i].key)[Len(STATE_DICT_MAPPING)]
    /\ \A i \in DOMAIN original_state_dict :
         original_state_dict[i].key = K_query_key_value
         => \E j \in DOMAIN new_dict :
              new_dict[j] = [ key |-> N_qkv_proj, value |-> original_state_dict[i].value ]

\* C2 witness: the example key has been converted and is stored under the expected name
C2_Witness ==
  /\ Converted
  /\ \E i \in DOMAIN original_state_dict : original_state_dict[i].key = K_query_key_value
  /\ \E j \in DOMAIN new_dict : new_dict[j].key = N_qkv_proj

\* whenever the old substring of one rule contains that of another, the
\* longer one is listed first
LongerRuleListedFirst ==
  \A i, j \in 1..Len(STATE_DICT_MAPPING) :
    ( /\ i # j
      /\ Len(STATE_DICT_MAPPING[i][1]) > Len(STATE_DICT_MAPPING[j][1])
      /\ contains(STATE_DICT_MAPPING[i][1], STATE_DICT_MAPPING[j][1]) )
    => i < j

\* C3: the table lists a longer rule before a shorter one it clashes with, so
\* a converted key that started with transformer.output_layer. is stored
\* under a name starting with lm_head.
C3_LongerRuleStillMatches ==
  ( /\ Converted
    /\ \E i \in DOMAIN original_state_dict :
         startswith(original_state_dict[i].key, Rule_output_layer[1]) )
  => /\ LongerRuleListedFirst
     /\ \A i \in DOMAIN original_state_dict :
          startswith(original_state_dict[i].key, Rule_output_layer[1])
          => \E j \in DOMAIN new_dict :
               /\ new_dict[j].value = original_state_dict[i].value
               /\ startswith(new_dict[j].key, Rule_output_layer[2])

\* every input entry is in the output under its renamed key with its own
\* value, and the output has as many entries as the input
EveryEntryKept ==
  /\ Len(new_dict) = Len(original_state_dict)
  /\ \A i \in DOMAIN original_state_dict : \E j \in DOMAIN new_dict :
       new_dict[j] = [ key   |-> new_key_of(original_state_dict[i].key),
                       value |-> original_state_dict[i].value ]

\* no two input keys are renamed to the same name
RenamedKeysDistinct ==
  \A i, j \in DOMAIN original_state_dict :
    new_key_of(original_state_dict[i].key) = new_key_of(original_state_dict[j].key)
    => i = j

\* C4 as stated: for every input collection of distinct keys, the output
\* holds every input entry under its renamed key with the same value, and as
\* many entries as the input.
C4_EveryEntryKept == Converted => EveryEntryKept

\* C4 amended: the same for every input collection whose keys are renamed to
\* pairwise distinct names; when several keys are renamed to one name, the
\* output holds that name once, with the value of the last of them.
C4_EveryEntryKeptWhenNamesDistinct ==
  Converted =>
    /\ RenamedKeysDistinct => EveryEntryKept
    /\ Len(new_dict) =
         Cardinality({ new_key_of(original_state_dict[i].key) : i \in DOMAIN original_state_dict })
    /\ \A i \in DOMAIN original_state_dict :
         ( \A k \in DOMAIN original_state_dict :
             new_key_of(original_state_dict[k].key) = new_key_of(original_state_dict[i].key)
             => k <= i )
         => \E j \in DOMAIN new_dict :
              new_dict[j] = [ key   |-> new_key_of(original_state_dict[i].key),
                              value |-> original_state_dict[i].value ]

\* C4 witness: a collection of two keys renamed to two distinct names has been converted,
\* a key changed by the rules among them
C4_Witness ==
  /\ Converted
  /\ Len(original_state_dict) = 2
  /\ RenamedKeysDistinct
  /\ \E j \in DOMAIN new_dict : new_dict[j].key # original_state_dict[j].key

ConfigReturned == pc = "save_config"
ConfigRaised == pc = "failed" /\ error = "KeyError"

\* C5: the GlmConfig convert_config returns has num_key_value_heads equal to
\* the source multi_query_group_num when multi_query_attention is true (flag
\* true, group 2, heads 32 gives 2), and equal to num_attention_heads when it
\* is false; then multi_query_group_num, if the source has it, is left in the
\* source record.
C5_KeyValueHeadsFromFlag ==
  ConfigReturned =>
    IF config_json["multi_query_attention"]
    THEN /\ "multi_query_group_num" \in DOMAIN config_json
         /\ new_config.num_key_value_heads = config_json["multi_query_group_num"]
         /\ "multi_query_group_num" \notin DOMAIN original_config
         /\ ( config_json["multi_query_group_num"] = 2
              /\ config_json["num_attention_heads"] = 32
              => new_config.num_key_value_heads = 2 )
    ELSE /\ new_config.num_key_value_heads = config_json["num_attention_heads"]
         /\ "multi_query_group_num" \in DOMAIN config_json
            => /\ "multi_query_group_num" \in DOMAIN original_config
               /\ original_config["multi_query_group_num"]
                    = config_json["multi_query_group_num"]

\* C5 witness: convert_config has returned on flag true, group 2, heads 32
C5_Witness ==
  /\ ConfigReturned
  /\ config_json["multi_query_attention"]
  /\ config_json["multi_query_group_num"] = 2
  /\ config_json["num_attention_heads"] = 32
  /\ new_config.num_key_value_heads = 2

\* the fields convert_config maps into the target schema
RequiredFields ==
  { FirstPops[i] : i \in 1..Len(FirstPops) }
  \cup { "multi_query_group_num" }
  \cup { LastPops[i] : i \in 1..Len(LastPops) }

\* the source record lacks exactly the required field f
LacksOnly(f) == RequiredFields \ DOMAIN config_json = { f }

\* C6 as stated: a source record with every required field is converted
\* without an exception, whatever else it holds, and a record lacking exactly
\* one required field raises KeyError, whichever field and whatever the flag.
C6_AnyMissingFieldRaises ==
  (ConfigReturned \/ ConfigRaised) =>
    /\ RequiredFields \subseteq DOMAIN config_json => ConfigReturned
    /\ \A f \in RequiredFields : LacksOnly(f) => ConfigRaised

\* C6 amended: the same, except that multi_query_group_num is required only
\* when multi_query_attention is true: a record lacking only
\* multi_query_group_num is converted without an exception when the flag is
\* false.
C6_MissingFieldRaisesUnlessUnread ==
  (ConfigReturned \/ ConfigRaised) =>
    /\ RequiredFields \subseteq DOMAIN config_json => ConfigReturned
    /\ \A f \in RequiredFields :
         LacksOnly(f) =>
           IF f = "multi_query_group_num" /\ ~config_json["multi_query_attention"]
           THEN ConfigReturned
           ELSE ConfigRaised /\ new_config = << >>

\* C6 witness: convert_config has raised on a record lacking only multi_query_group_num,
\* the flag true
C6_Witness ==
  /\ ConfigRaised
  /\ LacksOnly("multi_query_group_num")
  /\ config_json["multi_query_attention"]

\* C7: when convert_config raises, the run has written nothing: no file of
\* the output directory and no combined file in the input directory.
C7_NothingWrittenBeforeConfigError ==
  ConfigRaised =>
    /\ written = {}
    /\ run = 1 => output_dir = {} /\ ConsolidatedName \notin DOMAIN dir_files

\* C7 witness: the first run has failed in convert_config on a record lacking only the
\* last field it reads
C7_Witness ==
  /\ ConfigRaised
  /\ run = 1
  /\ RequiredFields \ DOMAIN config_json = { "add_bias_linear" }

\* seq in reverse order
reversed(seq) == [ i \in 1..Len(seq) |-> seq[Len(seq) + 1 - i] ]

\* C8: the checkpoint key transformer.output_layer.weight is stored by
\* convert_state_dict under a name other than the one the rules give when
\* applied in reverse table order.
C8_ReverseOrderDiffers ==
  Converted =>
    \A i \in DOMAIN original_state_dict :
      original_state_dict[i].key = K_output_layer
      => \E j \in DOMAIN new_dict :
           /\ new_dict[j].value = original_state_dict[i].value
           /\ new_dict[j].key # apply_rules(reversed(STATE_DICT_MAPPING), K_output_layer)

\* C8 witness: transformer.output_layer.weight has been converted
C8_Witness ==
  /\ Converted
  /\ \E i \in DOMAIN original_state_dict : original_state_dict[i].key = K_output_layer

\* C9: when the directory holds a .safetensors file whose name has no second
\* hyphen-delimited segment, or one that is no integer, merge_safetensors
\* raises instead of merging, whatever the directory path.
C9_MalformedNameRaises ==
  ( /\ MergeReturned \/ MergeRaised
    /\ \E n \in InputShards : Malformed(n) )
  => MergeRaised

\* C10: a merge over a directory that already holds consolidated.safetensors
\* from an earlier merge returns and leaves that file with the same bytes.
C10_MergeAgainSameBytes ==
  [][ (pc = "merge" /\ ConsolidatedName \in DOMAIN dir_files)
      => /\ pc' = "load_weights"
         /\ dir_files'[ConsolidatedName] = dir_files[ConsolidatedName] ]_vars
====
